---- MODULE Spec2Model ----
(***************************************************************************)
(* A model of the command-execution and run-orchestration core of          *)
(* repo_requirements_analyzer: the three shell tools (ShellExecutor, the   *)
(* chat shell function tool, the code shell function tool), the approval   *)
(* gate, the deny-list filters, the audit logger, run_with_retries and the *)
(* run drivers with their summary-writing finally blocks.                  *)
(*                                                                         *)
(* A tool invocation is a coroutine: it is modelled as one action per      *)
(* stretch of code between two awaits, sequenced by pc.  Agent turns are   *)
(* sequential, so no second invocation starts before pc is back at "idle". *)
(***************************************************************************)
EXTENDS Integers, Sequences, FiniteSets, TLC

VARIABLES
    tool,           \* which shell tool the run registered
    envFlag,        \* os.environ.get("SHELL_AUTO_APPROVE")
    pc,             \* position of the tool coroutine
    command_list,   \* the batch being served
    idx,            \* index of the command of the for loop
    proc,           \* the child process of the current command
    output,         \* outputs / output_parts accumulated so far
    ret,            \* how the last invocation ended
    events,         \* ShellCommandLogger.events
    logfile,        \* lines of the JSONL file at log_path
    attempted,      \* history: commands blocked or spawned, in order
    logAtStart,     \* history: Len(events) when the invocation started
    approvalCalls,  \* history: require_approval calls of the invocation
    answers,        \* history: what input() returned, invocation
    spawns,         \* history: processes spawned by the invocation
    displayed,      \* history: commands printed for approval, invocation
    nreq,           \* commands submitted so far (bounds the model)
    \* run_with_retries
    r_pc,           \* "off", "attempting", "backoff", "done", "failed"
    retries,        \* argument
    backoff_seconds,\* argument
    attempt,        \* local counter of transient failures
    calls,          \* history: Runner.run invocations
    delays,         \* history: arguments of time.sleep, in order
    raised,         \* history: what each failed Runner.run raised, in order
    r_ret,          \* what run_with_retries returned or raised
    \* run_analysis / run_code_agent
    entry,          \* which run function was called
    backend,        \* args.backend of run_code_agent
    output_arg,     \* whether args.output is set
    run_pc,         \* position of the run coroutine
    run_status,     \* local run_status / status
    error_message,  \* local error_message
    pending,        \* the return or exception on its way out of the try
    mcp_active,     \* mcp_manager.active_servers inside the async with
    mcp_running,    \* server processes that are running
    mcp_stops,      \* history: how often each server was stopped
    mcp_failed,     \* history: the servers that failed to launch
    agent_servers,  \* Agent(mcp_servers=...) of the agent that is run
    disk,           \* files the run has written
    summary,        \* content of run-summary.json
    diagnostics,    \* content of command-diagnostics.json
    summaryWrites,  \* history: writes of run-summary.json
    run_ret,        \* what the run function returned or raised
    \* _truncate_text
    t_text,         \* argument text
    t_max_chars,    \* argument max_chars
    t_stored,       \* what the call returned
    \* the agent's calls of tool-server operations
    tool_calls,     \* history: server, operation, whether it was forwarded
    \* two invocations of the program on one machine
    utcnow,         \* datetime.utcnow(), in whole seconds
    runs,           \* per invocation: its position and the paths it uses
    cloned          \* the clone targets that exist on disk

shellVars == <<tool, envFlag, pc, command_list, idx, proc, output, ret,
               events, logfile, attempted, logAtStart, approvalCalls,
               answers, spawns, displayed, nreq>>

retryVars == <<r_pc, retries, backoff_seconds, attempt, calls, delays, raised,
               r_ret>>

mcpVars == <<mcp_active, mcp_running, mcp_stops, mcp_failed, agent_servers>>

runVars == <<entry, backend, output_arg, run_pc, run_status, error_message,
             pending, mcpVars, disk, summary, diagnostics, summaryWrites,
             run_ret>>

\* the arguments and the result of one call of _truncate_text
truncVars == <<t_text, t_max_chars, t_stored>>

\* what two invocations on one machine share and own
pathVars == <<utcnow, runs, cloned>>

auxVars == <<truncVars, tool_calls, pathVars>>

vars == <<shellVars, retryVars, runVars, auxVars>>

nonShellVars == <<retryVars, runVars, auxVars>>

---------------------------------------------------------------------------
(* Bounds *)

MaxRequested == 2
MaxRetries == 3
MaxBackoff == 2
MaxLogged == 2

---------------------------------------------------------------------------
(* Values *)

None == <<>>
Some(v) == <<v>>

\* A command text: its whitespace-separated tokens, and whether it carries
\* leading/trailing whitespace.
Cmd(pad, toks) == [pad |-> pad, toks |-> toks]

NoCmd == Cmd(FALSE, <<>>)

RawCommands ==
    { Cmd(FALSE, <<"ls">>),
      Cmd(FALSE, <<"rm", "file">>),
      Cmd(TRUE,  <<"rm", "-rf", "/">>),
      Cmd(TRUE,  <<>>) }

\* str.strip()
strip(c) == Cmd(FALSE, c.toks)

\* truthiness of a str: non-empty
Truthy(c) == c.pad \/ c.toks # <<>>

DefaultTimeoutMs == 120000

Tools == {"shell_tool", "azure_shell_function", "code_shell_function"}

EnvValues == {None, Some("1"), Some("true")}

\* what the user types at "Proceed? [y/N] "
Responses == {"y", " YES ", "n", "", "yep"}

\* response.strip().lower()
strip_lower(r) == IF r = " YES " THEN "yes" ELSE r

---------------------------------------------------------------------------
(* Deny-list filters.  re.search over the command text, stated on tokens:  *)
(* \s+ separates tokens, ^\s* and (^|\s) anchor a token's start.           *)

\* tokens that begin with "/" and tokens that begin with "if="
SlashTokens == {"/", "/tmp"}
IfTokens == {"if=/dev/zero"}

Tok(c, i) == IF i <= Len(c.toks) THEN c.toks[i] ELSE ""

\* main.py: ^\s*(rm|mv|dd|mkfs|shutdown|reboot|git\s+reset|git\s+clean)\b
chat_disallowed(c) ==
    \/ Tok(c, 1) \in {"rm", "mv", "dd", "mkfs", "shutdown", "reboot"}
    \/ Tok(c, 1) = "git" /\ Tok(c, 2) \in {"reset", "clean"}

\* code_agent.py: (^|\s)(rm\s+-rf\s+/|mkfs\b|shutdown\b|reboot\b|dd\s+if=|
\*                git\s+reset\s+--hard\b|git\s+clean\s+-fdx\b)
code_unsafe(c) ==
    \E i \in 1..Len(c.toks) :
        \/ Tok(c, i) = "rm" /\ Tok(c, i+1) = "-rf" /\ Tok(c, i+2) \in SlashTokens
        \/ Tok(c, i) \in {"mkfs", "shutdown", "reboot"}
        \/ Tok(c, i) = "dd" /\ Tok(c, i+1) \in IfTokens
        \/ Tok(c, i) = "git" /\ Tok(c, i+1) = "reset" /\ Tok(c, i+2) = "--hard"
        \/ Tok(c, i) = "git" /\ Tok(c, i+1) = "clean" /\ Tok(c, i+2) = "-fdx"

\* the pattern the tool compiles; ShellExecutor compiles none
DenyListed(t, c) ==
    CASE t = "azure_shell_function" -> chat_disallowed(c)
      [] t = "code_shell_function"  -> code_unsafe(c)
      [] OTHER                      -> FALSE

\* index of the first command of the list the pattern matches, 0 if none
RECURSIVE FirstMatchFrom(_, _, _)
FirstMatchFrom(t, cl, i) ==
    IF i > Len(cl) THEN 0
    ELSE IF DenyListed(t, cl[i]) THEN i
    ELSE FirstMatchFrom(t, cl, i + 1)

\* mutant: only the first command of the list is checked
FirstMatch_HeadOnly(t, cl) ==
    IF cl # <<>> /\ DenyListed(t, cl[1]) THEN 1 ELSE 0

FirstMatch(t, cl) == FirstMatchFrom(t, cl, 1)

---------------------------------------------------------------------------
(* ShellCommandLogger *)

max_output_chars == 4000

truncate_text(text, max_chars) ==
    IF max_chars <= 0 THEN ""
    ELSE IF Len(text) <= max_chars THEN text
    ELSE SubSeq(text, 1, max_chars)
           \o "\n... [truncated " \o ToString(Len(text) - max_chars) \o " chars]"

Event(source, command, timeout_ms, timed_out, exit_code, duration_ms, stdout, stderr, blocked, block_reason) ==
    [ source       |-> source,
      command      |-> command,
      timeout_ms   |-> timeout_ms,
      timed_out    |-> timed_out,
      exit_code    |-> exit_code,
      duration_ms  |-> duration_ms,
      blocked      |-> blocked,
      block_reason |-> block_reason,
      stdout       |-> truncate_text(stdout, max_output_chars),
      stderr       |-> truncate_text(stderr, max_output_chars) ]

\* json.dumps(payload) + "\n": the object's members in insertion order
json_dumps(e) ==
    << <<"source", e.source>>, <<"command", e.command>>,
       <<"timeout_ms", e.timeout_ms>>, <<"timed_out", e.timed_out>>,
       <<"exit_code", e.exit_code>>, <<"duration_ms", e.duration_ms>>,
       <<"blocked", e.blocked>>, <<"block_reason", e.block_reason>>,
       <<"stdout", e.stdout>>, <<"stderr", e.stderr>> >>

\* mutant: the timeout path returns without logging
LoggerLog_SkipTimedOut(e) ==
    IF e.timed_out
      THEN UNCHANGED <<events, logfile>>
      ELSE /\ events' = Append(events, e)
           /\ logfile' = Append(logfile, json_dumps(e))

\* mutant: the event is kept in memory and the file write is left out
LoggerLog_MemoryOnly(e) ==
    /\ events' = Append(events, e)
    /\ logfile' = logfile

\* ShellCommandLogger.log: self.events.append(event); _append_jsonl(...)
LoggerLog(e) ==
    /\ events' = Append(events, e)
    /\ logfile' = Append(logfile, json_dumps(e))

\* mutant: a blocked command is logged with the shell's "cannot execute" code
BlockedEvent_Code126(t, c) ==
    Event(t, c, DefaultTimeoutMs, FALSE, Some(126), 0, "", "", TRUE,
          "unsafe_command_pattern")

\* logger.log(..., timed_out=False, exit_code=None, duration_ms=0, stdout="",
\* stderr="", blocked=True, block_reason="unsafe_command_pattern")
BlockedEvent(t, c) ==
    Event(t, c, DefaultTimeoutMs, FALSE, None, 0, "", "", TRUE,
          "unsafe_command_pattern")

\* sum(1 for e in self.events if test(e)), given the tests' outcomes
RECURSIVE sum(_)
sum(s) == IF s = <<>> THEN 0 ELSE (IF Head(s) THEN 1 ELSE 0) + sum(Tail(s))

\* mutant: every exit code other than 0 counts, None included
is_failure_NotZero(e) == e.exit_code # Some(0)

\* not blocked and not timed_out and isinstance(exit_code, int) and
\* exit_code != 0
is_failure(e) ==
    /\ ~e.blocked
    /\ ~e.timed_out
    /\ e.exit_code # None
    /\ e.exit_code # Some(0)

\* ShellCommandLogger.write_summary: the counts of command-diagnostics.json
write_summary(evs) ==
    [ total_commands     |-> Len(evs),
      failed_commands    |-> sum([k \in 1..Len(evs) |-> is_failure(evs[k])]),
      timed_out_commands |-> sum([k \in 1..Len(evs) |-> evs[k].timed_out]),
      blocked_commands   |-> sum([k \in 1..Len(evs) |-> evs[k].blocked]) ]

\* _append_jsonl opens the log path in append mode: the file exists once a
\* line was appended to it, and nothing else creates it
log_path_exists == logfile # <<>>

---------------------------------------------------------------------------
(* What a tool hands back *)

Part(t, cmd, stdout, stderr, n) ==
    [t |-> t, cmd |-> cmd, stdout |-> stdout, stderr |-> stderr, n |-> n]

\* f"$ {command_text}"
PartPrompt(c) == Part("$", c, "", "", None)
\* (stdout + stderr).strip() or "(no output)"
PartText(s) == Part("text", NoCmd, IF s = "" THEN "(no output)" ELSE s, "", None)
\* f"[exit_code={n}]"
PartExitCode(n) == Part("[exit_code=", NoCmd, "", "", Some(n))
\* ShellCommandOutput(command, stdout, stderr, ShellCallOutcome(type, exit_code))
ShellCommandOutput(c, stdout, stderr, type, exit_code) ==
    Part(type, c, stdout, stderr, exit_code)

Returned(v) == [kind |-> "return", value |-> v, error |-> ""]
Raised(e)   == [kind |-> "raise", value |-> <<>>, error |-> e]
NotCalled   == [kind |-> "none", value |-> <<>>, error |-> ""]

NoProc == [cmd |-> NoCmd, state |-> "none", killed |-> FALSE, drained |-> FALSE]

\* timeout_s = max(1, timeout_ms / 1000), as printed by int(timeout_s)
timeout_s(ms) == IF ms \div 1000 < 1 THEN 1 ELSE ms \div 1000

TimedOutMessage(ms) ==
    "Command timed out after " \o ToString(timeout_s(ms)) \o "s"

\* What a child process does when it exits on its own, and what the pipes
\* still hold when it is killed.
ExitBehaviours ==
    { [code |-> 0,   stdout |-> "out", stderr |-> "",    ms |-> 3],
      [code |-> 1,   stdout |-> "",    stderr |-> "err", ms |-> 0],
      [code |-> 124, stdout |-> "",    stderr |-> "",    ms |-> 9] }

DrainBehaviours ==
    { [stdout |-> "",    stderr |-> "",    ms |-> 120000],
      [stdout |-> "par", stderr |-> "err", ms |-> 120001] }

---------------------------------------------------------------------------
(* Tool entry: the code up to `await require_approval(...)` *)

\* [c.strip() for c in commands if c and c.strip()]
RECURSIVE StripNonEmpty(_)
StripNonEmpty(cs) ==
    IF cs = <<>> THEN <<>>
    ELSE (IF Truthy(Head(cs)) /\ Truthy(strip(Head(cs)))
            THEN <<strip(Head(cs))>> ELSE <<>>)
         \o StripNonEmpty(Tail(cs))

\* command_list of the two function tools; command and commands are optional
BuildCommandList(command, commands) ==
    (IF command # None THEN StripNonEmpty(<<command[1]>>) ELSE <<>>)
    \o (IF commands # None THEN StripNonEmpty(commands[1]) ELSE <<>>)

StartInvocation(n) ==
    /\ pc = "idle"
    /\ nreq + n <= MaxRequested
    /\ nreq' = nreq + n
    /\ logAtStart' = Len(events)
    /\ approvalCalls' = 0
    /\ answers' = <<>>
    /\ spawns' = 0
    /\ displayed' = <<>>
    /\ idx' = 0
    /\ proc' = NoProc
    /\ output' = <<>>

\* ShellExecutor.__call__ up to its first await
ShellExecutor_call(commands) ==
    /\ tool = "shell_tool"
    /\ StartInvocation(Len(commands))
    /\ command_list' = commands
    /\ pc' = "approval"
    /\ ret' = NotCalled
    /\ UNCHANGED nonShellVars
    /\ UNCHANGED <<tool, envFlag, events, logfile, attempted>>

\* mutant: approval is asked first; the deny-list is not consulted before it
FunctionTool_shell_ApprovalFirst(command, commands) ==
    LET cl == BuildCommandList(command, commands)
        n  == (IF command = None THEN 0 ELSE 1)
              + (IF commands = None THEN 0 ELSE Len(commands[1]))
    IN
    /\ tool \in {"azure_shell_function", "code_shell_function"}
    /\ StartInvocation(n)
    /\ command_list' = cl
    /\ IF cl = <<>>
         THEN /\ ret' = Returned(<<Part("No command provided.", NoCmd, "", "", None)>>)
              /\ pc' = "idle"
       ELSE   /\ ret' = NotCalled
              /\ pc' = "approval"
    /\ UNCHANGED <<events, logfile, attempted>>
    /\ UNCHANGED nonShellVars
    /\ UNCHANGED <<tool, envFlag>>

\* shell() of build_chat_shell_function_tool / build_code_shell_function_tool
\* up to its first await: list building, empty check, deny-list loop
FunctionTool_shell(command, commands) ==
    LET cl == BuildCommandList(command, commands)
        m  == FirstMatch(tool, cl)
        n  == (IF command = None THEN 0 ELSE 1)
              + (IF commands = None THEN 0 ELSE Len(commands[1]))
    IN
    /\ tool \in {"azure_shell_function", "code_shell_function"}
    /\ StartInvocation(n)
    /\ command_list' = cl
    /\ IF cl = <<>>
         THEN /\ ret' = Returned(<<Part("No command provided.", NoCmd, "", "", None)>>)
              /\ pc' = "idle"
              /\ UNCHANGED <<events, logfile, attempted>>
       ELSE IF m # 0
         THEN /\ LoggerLog(BlockedEvent(tool, cl[m]))
              /\ attempted' = Append(attempted, [cmd |-> cl[m], how |-> "blocked"])
              /\ ret' = Returned(<<Part("Blocked unsafe command: ", cl[m], "", "", None)>>)
              /\ pc' = "idle"
       ELSE   /\ ret' = NotCalled
              /\ pc' = "approval"
              /\ UNCHANGED <<events, logfile, attempted>>
    /\ UNCHANGED nonShellVars
    /\ UNCHANGED <<tool, envFlag>>

---------------------------------------------------------------------------
(* require_approval *)

\* mutant: any value of the variable counts as set
AutoApprove_AnyValue == envFlag # None

\* os.environ.get("SHELL_AUTO_APPROVE") == "1"
AutoApprove == envFlag = Some("1")

\* mutant: everything but an explicit "n" is taken for consent
Accepted_DefaultYes(response) == response # "n"

\* response in {"y", "yes"}
Accepted(response) == response \in {"y", "yes"}

\* after approval: the for loop starts, or ends at once on an empty list
EnterLoop ==
    IF command_list = <<>>
      THEN /\ pc' = "idle"
           /\ ret' = Returned(<<>>)
           /\ idx' = 0
      ELSE /\ pc' = "spawn"
           /\ idx' = 1
           /\ ret' = ret

require_approval(response) ==
    /\ pc = "approval"
    /\ approvalCalls' = approvalCalls + 1
    /\ IF AutoApprove
         THEN /\ EnterLoop
              /\ UNCHANGED <<answers, displayed>>
         ELSE /\ displayed' = displayed \o command_list
              /\ answers' = Append(answers, strip_lower(response))
              /\ IF Accepted(strip_lower(response))
                   THEN EnterLoop
                   ELSE /\ ret' = Raised("Shell command execution rejected by user.")
                        /\ pc' = "idle"
                        /\ idx' = 0
    /\ UNCHANGED nonShellVars
    /\ UNCHANGED <<tool, envFlag, command_list, proc, output, events, logfile,
                   attempted, logAtStart, spawns, nreq>>

---------------------------------------------------------------------------
(* The for loop over command_list: spawn, race against the timer, log *)

IsFunctionTool == tool \in {"azure_shell_function", "code_shell_function"}

\* mutant: the runner reports the conventional sentinel on timeout
run_exec_exit_code_Sentinel(timed_out, returncode) ==
    IF timed_out THEN Some(124) ELSE Some(returncode)

\* _run_exec's first tuple member: None if timed_out else proc.returncode
run_exec_exit_code(timed_out, returncode) ==
    IF timed_out THEN None ELSE Some(returncode)

ExitEvent(t, c, b) ==
    Event(t, c, DefaultTimeoutMs, FALSE, run_exec_exit_code(FALSE, b.code),
          b.ms, b.stdout, b.stderr, FALSE, "")

\* stderr as logged for a timed-out command
TimeoutStderr(t, stderr) ==
    IF t \in {"shell_tool", "azure_shell_function"} /\ stderr = ""
      THEN TimedOutMessage(DefaultTimeoutMs)
      ELSE stderr

TimeoutEvent(t, c, d) ==
    Event(t, c, DefaultTimeoutMs, TRUE, run_exec_exit_code(TRUE, 0),
          d.ms, d.stdout, TimeoutStderr(t, d.stderr), FALSE, "")

ExitOutput(t, c, b) ==
    IF t = "shell_tool"
      THEN <<ShellCommandOutput(c, b.stdout, b.stderr, "exit", Some(b.code))>>
      ELSE <<PartText(b.stdout \o b.stderr), PartExitCode(b.code)>>

TimeoutOutput(t, c, d) ==
    IF t = "shell_tool"
      THEN <<ShellCommandOutput(c, d.stdout, TimeoutStderr(t, d.stderr),
                                "timeout", None)>>
      ELSE <<PartText(TimedOutMessage(DefaultTimeoutMs)), PartExitCode(124)>>

\* await asyncio.create_subprocess_exec(*_shell_invocation(command), ...)
create_subprocess_exec(ok) ==
    /\ pc = "spawn"
    /\ output' = IF IsFunctionTool
                   THEN Append(output, PartPrompt(command_list[idx]))
                   ELSE output
    /\ IF ok
         THEN /\ proc' = [cmd |-> command_list[idx], state |-> "running",
                          killed |-> FALSE, drained |-> FALSE]
              /\ attempted' = Append(attempted,
                                 [cmd |-> command_list[idx], how |-> "spawned"])
              /\ spawns' = spawns + 1
              /\ pc' = "communicate"
              /\ ret' = ret
         ELSE /\ proc' = NoProc
              /\ attempted' = attempted
              /\ spawns' = spawns
              /\ pc' = "idle"
              /\ ret' = Raised("OSError")
    /\ UNCHANGED nonShellVars
    /\ UNCHANGED <<tool, envFlag, command_list, idx, events, logfile,
                   logAtStart, approvalCalls, answers, displayed, nreq>>

\* mutant: approval is asked again before each further command
Continue_ReApprove(out) ==
    IF idx < Len(command_list)
      THEN /\ pc' = "approval"
           /\ idx' = idx
           /\ output' = out
           /\ ret' = ret
      ELSE /\ pc' = "idle"
           /\ idx' = idx
           /\ output' = <<>>
           /\ ret' = Returned(out)

\* the next iteration of the loop, or the return after the last command
Continue(out) ==
    IF idx < Len(command_list)
      THEN /\ pc' = "spawn"
           /\ idx' = idx + 1
           /\ output' = out
           /\ ret' = ret
      ELSE /\ pc' = "idle"
           /\ idx' = idx
           /\ output' = <<>>
           /\ ret' = Returned(out)

\* mutant: a nonzero status is raised, as subprocess.run(check=True) does
communicate_returns_CheckStatus(b) ==
    /\ pc = "communicate"
    /\ proc' = [proc EXCEPT !.state = "exited", !.drained = TRUE]
    /\ LoggerLog(ExitEvent(tool, command_list[idx], b))
    /\ IF b.code # 0
         THEN /\ pc' = "idle"
              /\ idx' = idx
              /\ output' = <<>>
              /\ ret' = Raised("CalledProcessError")
         ELSE Continue(output \o ExitOutput(tool, command_list[idx], b))
    /\ UNCHANGED nonShellVars
    /\ UNCHANGED <<tool, envFlag, command_list, attempted, logAtStart,
                   approvalCalls, answers, spawns, displayed, nreq>>

\* asyncio.wait_for(proc.communicate(), timeout) returns: the process exited
communicate_returns(b) ==
    /\ pc = "communicate"
    /\ proc' = [proc EXCEPT !.state = "exited", !.drained = TRUE]
    /\ LoggerLog(ExitEvent(tool, command_list[idx], b))
    /\ Continue(output \o ExitOutput(tool, command_list[idx], b))
    /\ UNCHANGED nonShellVars
    /\ UNCHANGED <<tool, envFlag, command_list, attempted, logAtStart,
                   approvalCalls, answers, spawns, displayed, nreq>>

\* asyncio.wait_for raises TimeoutError: timed_out = True; proc.kill()
wait_for_timeout ==
    /\ pc = "communicate"
    /\ proc' = [proc EXCEPT !.state = "killed", !.killed = TRUE]
    /\ pc' = "drain"
    /\ UNCHANGED nonShellVars
    /\ UNCHANGED <<tool, envFlag, command_list, idx, output, ret, events,
                   logfile, attempted, logAtStart, approvalCalls, answers,
                   spawns, displayed, nreq>>

\* mutant: the loop goes on to the next command after a timeout
communicate_after_kill_NoBreak(d) ==
    /\ pc = "drain"
    /\ proc' = [proc EXCEPT !.drained = TRUE]
    /\ LoggerLog(TimeoutEvent(tool, command_list[idx], d))
    /\ Continue(output \o TimeoutOutput(tool, command_list[idx], d))
    /\ UNCHANGED nonShellVars
    /\ UNCHANGED <<tool, envFlag, command_list, attempted, logAtStart,
                   approvalCalls, answers, spawns, displayed, nreq>>

\* mutant: the timeout is logged and then re-raised to the caller
communicate_after_kill_Reraises(d) ==
    /\ pc = "drain"
    /\ proc' = [proc EXCEPT !.drained = TRUE]
    /\ LoggerLog(TimeoutEvent(tool, command_list[idx], d))
    /\ pc' = "idle"
    /\ output' = <<>>
    /\ ret' = Raised("TimeoutError")
    /\ UNCHANGED nonShellVars
    /\ UNCHANGED <<tool, envFlag, command_list, idx, attempted, logAtStart,
                   approvalCalls, answers, spawns, displayed, nreq>>

\* await proc.communicate() after the kill; log; break; return
communicate_after_kill(d) ==
    /\ pc = "drain"
    /\ proc' = [proc EXCEPT !.drained = TRUE]
    /\ LoggerLog(TimeoutEvent(tool, command_list[idx], d))
    /\ pc' = "idle"
    /\ output' = <<>>
    /\ ret' = Returned(output \o TimeoutOutput(tool, command_list[idx], d))
    /\ UNCHANGED nonShellVars
    /\ UNCHANGED <<tool, envFlag, command_list, idx, attempted, logAtStart,
                   approvalCalls, answers, spawns, displayed, nreq>>

---------------------------------------------------------------------------
(* run_with_retries (main.py) *)

\* what Runner.run can raise: the two classes the except clause names, and
\* others (max turns exceeded, a tool's RuntimeError, ...)
TransientErrors == {"RateLimitError", "APIConnectionError"}
OtherErrors == {"MaxTurnsExceeded", "RuntimeError"}

\* mutant: every exception is retried
IsTransient_Any(exc) == TRUE

\* except (RateLimitError, APIConnectionError)
IsTransient(exc) == exc \in TransientErrors

\* mutant: one retry too many
Exhausted_OffByOne(a, r) == a > r + 1

\* if attempt > retries: raise
Exhausted(a, r) == a > r

\* mutant: the delay grows linearly
sleep_s_Linear(b, a) == b * a

\* sleep_s = backoff_seconds * (2 ** (attempt - 1))
sleep_s(b, a) == b * (2 ^ (a - 1))

\* attempt = 0; while True: ...
run_with_retries_begin(r, b) ==
    /\ r_pc' = "attempting"
    /\ retries' = r
    /\ backoff_seconds' = b
    /\ attempt' = 0
    /\ calls' = 0
    /\ delays' = <<>>
    /\ raised' = <<>>
    /\ r_ret' = NotCalled

\* return await Runner.run(...): the attempt succeeds
Runner_run_returns ==
    /\ r_pc = "attempting"
    /\ calls' = calls + 1
    /\ r_pc' = "done"
    /\ r_ret' = Returned(<<"final_output">>)
    /\ UNCHANGED <<retries, backoff_seconds, attempt, delays, raised>>

\* Runner.run raises exc
Runner_run_raises(exc) ==
    /\ r_pc = "attempting"
    /\ calls' = calls + 1
    /\ raised' = Append(raised, exc)
    /\ IF IsTransient(exc)
         THEN /\ attempt' = attempt + 1
              /\ IF Exhausted(attempt + 1, retries)
                   THEN /\ r_pc' = "failed"
                        /\ r_ret' = Raised(exc)
                        /\ delays' = delays
                   ELSE /\ r_pc' = "backoff"
                        /\ r_ret' = r_ret
                        /\ delays' = Append(delays,
                                       sleep_s(backoff_seconds, attempt + 1))
         ELSE /\ r_pc' = "failed"
              /\ r_ret' = Raised(exc)
              /\ UNCHANGED <<attempt, delays>>
    /\ UNCHANGED <<retries, backoff_seconds>>

\* time.sleep(sleep_s) returns; the while loop goes round
time_sleep_returns ==
    /\ r_pc = "backoff"
    /\ r_pc' = "attempting"
    /\ UNCHANGED <<retries, backoff_seconds, attempt, calls, delays, raised,
                   r_ret>>

---------------------------------------------------------------------------
(* run_analysis (main.py) and run_code_agent (code_agent.py)               *)
(*                                                                         *)
(* Each run function is a coroutine whose only suspension inside the try   *)
(* is the agent call (and, in run_code_agent, entering the MCP manager and *)
(* the codex subprocess).  The finally block writes into the run directory *)
(* the function created itself, an ASCII JSON payload: those two writes    *)
(* are taken to succeed.  The report and the output copy carry the agent's *)
(* text to report.md and to a user-given path, and may raise.              *)

McpServers == {"filesystem", "git"}

\* what can go wrong before the try block is entered
SetupErrors(e) ==
    IF e = "run_analysis"
      THEN {"clone_failed", "scan_error", "azure_config_error", "api_mode_error"}
      ELSE {"clone_failed", "analysis_report_missing", "azure_config_error",
            "api_mode_error"}

\* MCPServerManager(mcp_servers, strict=False, drop_failed_servers=True,
\* connect_in_parallel=True) is entered: the servers of `launchable` start
\* and connect; the others fail, are dropped, and nothing is raised
MCPServerManager_enter(launchable) ==
    /\ mcp_running' = launchable
    /\ mcp_active' = launchable
    /\ mcp_failed' = Some(McpServers \ launchable)
    /\ mcp_stops' = mcp_stops

\* the manager is left: every server that runs is stopped
MCPServerManager_exit ==
    /\ mcp_stops' = [s \in McpServers |->
                       IF s \in mcp_running THEN mcp_stops[s] + 1
                                            ELSE mcp_stops[s]]
    /\ mcp_running' = {}
    /\ mcp_active' = {}
    /\ mcp_failed' = mcp_failed

\* the manager is entered and, the body raising at once, left again
MCPServerManager_enter_exit(launchable) ==
    /\ mcp_failed' = Some(McpServers \ launchable)
    /\ mcp_stops' = [s \in McpServers |->
                       IF s \in launchable THEN mcp_stops[s] + 1
                                           ELSE mcp_stops[s]]
    /\ mcp_running' = {}
    /\ mcp_active' = {}

\* mutant: connect and cleanup are called in sequence, with no async with
async_with_exit_OnSuccessOnly(raising) ==
    IF raising THEN UNCHANGED <<mcp_active, mcp_running, mcp_stops, mcp_failed>>
               ELSE MCPServerManager_exit

\* the end of `async with MCPServerManager(...) as mcp_manager:`, reached by
\* a return or by an exception
async_with_exit(raising) == MCPServerManager_exit

\* mutant: the raise is issued only when nothing was configured
NoActiveServers_NoneConfigured(all, active) == all = {}

\* if not mcp_manager.active_servers
NoActiveServers(all, active) == active = {}

\* mutant: the agent gets the configured list
AgentServers_Configured(all, active) == all

\* Agent(..., mcp_servers=mcp_manager.active_servers)
AgentServers(all, active) == active

\* mutant: the summary is written at the end of the try body only
WriteRunSummary_OnlyOnSuccess(status, msg) ==
    IF status = "failed"
      THEN UNCHANGED <<disk, summary, diagnostics, summaryWrites>>
      ELSE /\ disk' = disk \cup {"command-diagnostics.json", "run-summary.json"}
           /\ summary' = Some([run_status |-> status, error_message |-> msg])
           /\ diagnostics' = Some(write_summary(events))
           /\ summaryWrites' = summaryWrites + 1

\* the finally block: logger.write_summary(run_dir); summary_path.write_text
WriteRunSummary(status, msg) ==
    /\ disk' = disk \cup {"command-diagnostics.json", "run-summary.json"}
    /\ summary' = Some([run_status |-> status, error_message |-> msg])
    /\ diagnostics' = Some(write_summary(events))
    /\ summaryWrites' = summaryWrites + 1

\* an exception leaves the try body: except Exception as exc:
\* error_message = str(exc); raise
ExceptClause(exc) ==
    /\ error_message' = exc
    /\ pending' = Raised(exc)
    /\ run_pc' = "finally"

\* run_analysis up to `await run_with_retries(...)`
run_analysis_setup(outcome, r, b) ==
    /\ entry = "run_analysis"
    /\ run_pc = "start"
    /\ IF outcome = "ok"
         THEN /\ disk' = disk \cup {"scan.json"}
              /\ run_status' = "failed"
              /\ error_message' = ""
              /\ run_with_retries_begin(r, b)
              /\ run_pc' = "agent"
              /\ run_ret' = run_ret
         ELSE /\ disk' = IF outcome \in {"clone_failed", "scan_error"}
                           THEN disk ELSE disk \cup {"scan.json"}
              /\ run_pc' = "raised"
              /\ run_ret' = Raised(outcome)
              /\ UNCHANGED <<run_status, error_message, retryVars>>
    /\ UNCHANGED <<entry, backend, output_arg, pending, mcpVars, summary, diagnostics,
                   summaryWrites>>
    /\ UNCHANGED <<shellVars, auxVars>>

\* run_analysis from the agent call's end to the end of the try statement
run_analysis_after_agent(passed, report_ok, output_ok) ==
    /\ entry = "run_analysis"
    /\ run_pc = "agent"
    /\ r_pc \in {"done", "failed"}
    /\ IF r_pc = "failed"
         THEN /\ ExceptClause(r_ret.error)
              /\ UNCHANGED <<run_status, disk>>
         ELSE /\ run_status' = IF passed THEN "completed"
                                         ELSE "completed_with_warnings"
              /\ IF ~report_ok
                   THEN /\ ExceptClause("report_write_error")
                        /\ disk' = disk
                   ELSE IF output_arg /\ ~output_ok
                     THEN /\ ExceptClause("output_write_error")
                          /\ disk' = disk \cup {"report.md"}
                   ELSE /\ disk' = disk \cup {"report.md"}
                                     \cup (IF output_arg THEN {"output"} ELSE {})
                        /\ pending' = Returned(<<"AnalysisRunResult">>)
                        /\ run_pc' = "finally"
                        /\ error_message' = error_message
    /\ UNCHANGED <<entry, backend, output_arg, mcpVars, summary, diagnostics,
                   summaryWrites, run_ret>>
    /\ UNCHANGED <<shellVars, retryVars, auxVars>>

\* run_code_agent up to the try block
run_code_agent_setup(outcome) ==
    /\ entry = "run_code_agent"
    /\ run_pc = "start"
    /\ outcome \in {"azure_config_error", "api_mode_error"}
          => backend = "agents_sdk"
    /\ IF outcome = "ok"
         THEN /\ run_status' = "failed"
              /\ error_message' = ""
              /\ run_pc' = IF backend = "codex_cli" THEN "codex" ELSE "mcp"
              /\ run_ret' = run_ret
         ELSE /\ run_pc' = "raised"
              /\ run_ret' = Raised(outcome)
              /\ UNCHANGED <<run_status, error_message>>
    /\ UNCHANGED <<entry, backend, output_arg, pending, mcpVars, disk,
                   summary, diagnostics, summaryWrites>>
    /\ UNCHANGED <<shellVars, retryVars, auxVars>>

\* the codex_cli branch: the subprocess ends, times out or fails
run_code_agent_codex(outcome, output_ok) ==
    /\ entry = "run_code_agent"
    /\ run_pc = "codex"
    /\ IF outcome # "ok"
         THEN /\ ExceptClause(outcome)
              /\ run_status' = run_status
              /\ disk' = IF outcome = "codex_not_found" THEN disk
                         ELSE disk \cup {"codex-cli.stdout.log",
                                         "codex-cli.stderr.log"}
         ELSE /\ run_status' = "completed"
              /\ IF output_arg /\ ~output_ok
                   THEN /\ ExceptClause("output_write_error")
                        /\ disk' = disk \cup {"codex-cli.stdout.log",
                                              "codex-cli.stderr.log"}
                   ELSE /\ disk' = disk \cup {"codex-cli.stdout.log",
                                              "codex-cli.stderr.log"}
                                     \cup (IF output_arg THEN {"output"} ELSE {})
                        /\ pending' = Returned(<<"run_dir">>)
                        /\ run_pc' = "finally"
                        /\ error_message' = error_message
    /\ UNCHANGED <<entry, backend, output_arg, mcpVars, summary, diagnostics,
                   summaryWrites, run_ret>>
    /\ UNCHANGED <<shellVars, retryVars, auxVars>>

\* build_local_mcp_servers; async with MCPServerManager(...) is entered with
\* the servers of `connected` started; the agent call begins
run_code_agent_mcp(installed, connected, r, b) ==
    /\ entry = "run_code_agent"
    /\ run_pc = "mcp"
    /\ IF ~installed
         THEN /\ ExceptClause("FileNotFoundError")
              /\ UNCHANGED <<mcpVars, retryVars>>
       ELSE IF NoActiveServers(McpServers, connected)
         THEN /\ ExceptClause("No MCP servers connected successfully.")
              /\ MCPServerManager_enter_exit(connected)
              /\ UNCHANGED <<agent_servers, retryVars>>
       ELSE   /\ MCPServerManager_enter(connected)
              /\ agent_servers' = AgentServers(McpServers, connected)
              /\ run_with_retries_begin(r, b)
              /\ run_pc' = "agent"
              /\ UNCHANGED <<error_message, pending>>
    /\ UNCHANGED <<entry, backend, output_arg, run_status, disk, summary, diagnostics,
                   summaryWrites, run_ret>>
    /\ UNCHANGED <<shellVars, auxVars>>

\* run_code_agent from the agent call's end to the end of the try statement;
\* leaving the async with stops the servers
run_code_agent_after_agent(output_ok) ==
    /\ entry = "run_code_agent"
    /\ run_pc = "agent"
    /\ r_pc \in {"done", "failed"}
    /\ agent_servers' = agent_servers
    /\ IF r_pc = "failed"
         THEN /\ ExceptClause(r_ret.error)
              /\ UNCHANGED <<run_status, disk>>
         ELSE /\ run_status' = "completed"
              /\ IF output_arg /\ ~output_ok
                   THEN /\ ExceptClause("output_write_error")
                        /\ disk' = disk
                   ELSE /\ disk' = disk \cup (IF output_arg THEN {"output"} ELSE {})
                        /\ pending' = Returned(<<"run_dir">>)
                        /\ run_pc' = "finally"
                        /\ error_message' = error_message
    /\ async_with_exit(pending'.kind = "raise")
    /\ UNCHANGED <<entry, backend, output_arg, summary, diagnostics,
                   summaryWrites, run_ret>>
    /\ UNCHANGED <<shellVars, retryVars, auxVars>>

\* run_model_secret_review up to `await run_with_retries(...)`; nothing in
\* it catches an exception
run_model_secret_review_mcp(outcome, connected, r, b) ==
    /\ entry = "run_model_secret_review"
    /\ run_pc = "start"
    /\ IF outcome # "ok"
         THEN /\ run_ret' = Raised(outcome)
              /\ run_pc' = "raised"
              /\ UNCHANGED <<mcpVars, retryVars>>
       ELSE IF NoActiveServers(McpServers, connected)
         THEN /\ run_ret' = Raised("No MCP servers connected successfully for review stage.")
              /\ run_pc' = "raised"
              /\ MCPServerManager_enter_exit(connected)
              /\ UNCHANGED <<agent_servers, retryVars>>
       ELSE   /\ MCPServerManager_enter(connected)
              /\ agent_servers' = AgentServers(McpServers, connected)
              /\ run_with_retries_begin(r, b)
              /\ run_pc' = "agent"
              /\ run_ret' = run_ret
    /\ UNCHANGED <<entry, backend, output_arg, run_status, error_message,
                   pending, disk, summary, diagnostics, summaryWrites>>
    /\ UNCHANGED <<shellVars, auxVars>>

\* run_model_secret_review from the agent call's end to its return
run_model_secret_review_after_agent(write_ok) ==
    /\ entry = "run_model_secret_review"
    /\ run_pc = "agent"
    /\ r_pc \in {"done", "failed"}
    /\ agent_servers' = agent_servers
    /\ IF r_pc = "failed"
         THEN /\ run_ret' = Raised(r_ret.error)
              /\ run_pc' = "raised"
              /\ disk' = disk
       ELSE IF ~write_ok
         THEN /\ run_ret' = Raised("review_write_error")
              /\ run_pc' = "raised"
              /\ disk' = disk
       ELSE   /\ run_ret' = Returned(<<"review_stage">>)
              /\ run_pc' = "returned"
              /\ disk' = disk \cup {"secret-review-output.md",
                                    "secret-review.json"}
    /\ async_with_exit(run_ret'.kind = "raise" /\ r_pc = "failed")
    /\ UNCHANGED <<entry, backend, output_arg, run_status, error_message,
                   pending, summary, diagnostics, summaryWrites>>
    /\ UNCHANGED <<shellVars, retryVars, auxVars>>

\* What a shell tool hands to logger.log when the agent has it run a command
LoggedEvents ==
    {ExitEvent("code_shell_function", Cmd(FALSE, <<"ls">>), b) :
        b \in {x \in ExitBehaviours : x.code = 1}}
    \cup {TimeoutEvent("code_shell_function", Cmd(FALSE, <<"ls">>), d) :
             d \in {x \in DrainBehaviours : x.stdout = ""}}
    \cup {BlockedEvent("code_shell_function", Cmd(FALSE, <<"rm", "-rf", "/">>))}

\* Runner.run has the agent call a shell tool, which logs one event
Runner_tool_logs(e) ==
    /\ run_pc = "agent"
    /\ r_pc = "attempting"
    /\ Len(events) < MaxLogged
    /\ LoggerLog(e)
    /\ UNCHANGED <<tool, envFlag, pc, command_list, idx, proc, output, ret,
                   attempted, logAtStart, approvalCalls, answers, spawns,
                   displayed, nreq>>
    /\ UNCHANGED nonShellVars

\* the finally block of either run function
run_finally ==
    /\ run_pc = "finally"
    /\ WriteRunSummary(run_status, error_message)
    /\ run_pc' = "exit"
    /\ UNCHANGED <<entry, backend, output_arg, run_status, error_message,
                   pending, mcpVars, run_ret>>
    /\ UNCHANGED <<shellVars, retryVars, auxVars>>

\* the try statement is left: the value is returned, or the exception
\* re-raised, to the caller
run_leave ==
    /\ run_pc = "exit"
    /\ run_ret' = pending
    /\ run_pc' = IF pending.kind = "return" THEN "returned" ELSE "raised"
    /\ UNCHANGED <<entry, backend, output_arg, run_status, error_message,
                   pending, mcpVars, disk, summary, diagnostics, summaryWrites>>
    /\ UNCHANGED <<shellVars, retryVars, auxVars>>

---------------------------------------------------------------------------
(* The shell tools under an agent that submits batches *)

SeqsUpTo(S, n) == UNION { [1..k -> S] : k \in 0..n }

Optional(S) == {None} \cup { Some(v) : v \in S }

ShellIdle ==
    /\ pc = "idle"
    /\ command_list = <<>>
    /\ idx = 0
    /\ proc = NoProc
    /\ output = <<>>
    /\ ret = NotCalled
    /\ events = <<>>
    /\ logfile = <<>>
    /\ attempted = <<>>
    /\ logAtStart = 0
    /\ approvalCalls = 0
    /\ answers = <<>>
    /\ spawns = 0
    /\ displayed = <<>>
    /\ nreq = 0

RetryOff ==
    /\ r_pc = "off"
    /\ retries = 0
    /\ backoff_seconds = 0
    /\ attempt = 0
    /\ calls = 0
    /\ delays = <<>>
    /\ raised = <<>>
    /\ r_ret = NotCalled

RunOff ==
    /\ entry = "none"
    /\ backend = "agents_sdk"
    /\ output_arg = FALSE
    /\ run_pc = "off"
    /\ run_status = ""
    /\ error_message = ""
    /\ pending = NotCalled
    /\ mcp_active = {}
    /\ mcp_running = {}
    /\ mcp_stops = [s \in McpServers |-> 0]
    /\ mcp_failed = None
    /\ agent_servers = {}
    /\ disk = {}
    /\ summary = None
    /\ diagnostics = None
    /\ summaryWrites = 0
    /\ run_ret = NotCalled

\* no call of _truncate_text is followed on its own
TruncOff ==
    /\ t_text = ""
    /\ t_max_chars = max_output_chars
    /\ t_stored = None

\* no second invocation is followed
PathsOff ==
    /\ utcnow = 0
    /\ runs = <<>>
    /\ cloned = {}

AuxOff ==
    /\ TruncOff
    /\ tool_calls = <<>>
    /\ PathsOff

Init ==
    /\ tool \in Tools
    /\ envFlag \in EnvValues
    /\ ShellIdle
    /\ AuxOff
    /\ RetryOff
    /\ RunOff

Next ==
    \/ \E cs \in SeqsUpTo(RawCommands, MaxRequested - nreq) :
         ShellExecutor_call(cs)
    \/ \E c \in Optional(RawCommands) :
         \E cs \in Optional(SeqsUpTo(RawCommands, MaxRequested - nreq)) :
           FunctionTool_shell(c, cs)
    \/ \E r \in Responses : require_approval(r)
    \/ \E ok \in BOOLEAN : create_subprocess_exec(ok)
    \/ \E b \in ExitBehaviours : communicate_returns(b)
    \/ wait_for_timeout
    \/ \E d \in DrainBehaviours : communicate_after_kill(d)

Spec == Init /\ [][Next]_vars


---------------------------------------------------------------------------
(* run_with_retries on its own, for every retries and backoff argument *)

RetryInit ==
    /\ tool = "shell_tool"
    /\ envFlag = None
    /\ ShellIdle
    /\ AuxOff
    /\ r_pc = "attempting"
    /\ retries \in -1..MaxRetries
    /\ backoff_seconds \in 1..MaxBackoff
    /\ attempt = 0
    /\ calls = 0
    /\ delays = <<>>
    /\ raised = <<>>
    /\ r_ret = NotCalled
    /\ RunOff

RetryNext ==
    \/ Runner_run_returns /\ UNCHANGED <<shellVars, runVars, auxVars>>
    \/ \E exc \in TransientErrors \cup OtherErrors :
         Runner_run_raises(exc) /\ UNCHANGED <<shellVars, runVars, auxVars>>
    \/ time_sleep_returns /\ UNCHANGED <<shellVars, runVars, auxVars>>

RetrySpec == RetryInit /\ [][RetryNext]_vars

\* each await and each time.sleep returns: the driver is never suspended
\* for ever
RetryFairSpec == RetrySpec /\ WF_vars(RetryNext)

---------------------------------------------------------------------------
(* One run of run_analysis or run_code_agent, the agent call included *)

RunInit ==
    /\ tool = "shell_tool"
    /\ envFlag = None
    /\ ShellIdle
    /\ AuxOff
    /\ RetryOff
    /\ entry \in {"run_analysis", "run_code_agent"}
    /\ backend \in (IF entry = "run_code_agent"
                      THEN {"agents_sdk", "codex_cli"} ELSE {"agents_sdk"})
    /\ output_arg \in BOOLEAN
    /\ run_pc = "start"
    /\ run_status = ""
    /\ error_message = ""
    /\ pending = NotCalled
    /\ mcp_active = {}
    /\ mcp_running = {}
    /\ mcp_stops = [s \in McpServers |-> 0]
    /\ mcp_failed = None
    /\ agent_servers = {}
    /\ disk = {}
    /\ summary = None
    /\ diagnostics = None
    /\ summaryWrites = 0
    /\ run_ret = NotCalled

RunArgs == (-1..MaxRetries) \X {1}

RunNext ==
    \/ \E o \in {"ok"} \cup SetupErrors("run_analysis") : \E a \in RunArgs :
         run_analysis_setup(o, a[1], a[2])
    \/ \E passed, report_ok, output_ok \in BOOLEAN :
         run_analysis_after_agent(passed, report_ok, output_ok)
    \/ \E o \in {"ok"} \cup SetupErrors("run_code_agent") :
         run_code_agent_setup(o)
    \/ \E o \in {"ok", "codex_not_found", "codex_timeout", "codex_exit_nonzero"} :
         \E output_ok \in BOOLEAN : run_code_agent_codex(o, output_ok)
    \/ \E installed \in BOOLEAN : \E connected \in SUBSET McpServers :
         \E a \in RunArgs : run_code_agent_mcp(installed, connected, a[1], a[2])
    \/ \E output_ok \in BOOLEAN : run_code_agent_after_agent(output_ok)
    \/ \E e \in LoggedEvents : Runner_tool_logs(e)
    \/ run_finally
    \/ run_leave
    \/ (run_pc = "agent" /\ Runner_run_returns /\ UNCHANGED <<shellVars, runVars, auxVars>>)
    \/ \E exc \in TransientErrors \cup OtherErrors :
         run_pc = "agent" /\ Runner_run_raises(exc)
            /\ UNCHANGED <<shellVars, runVars, auxVars>>
    \/ (run_pc = "agent" /\ time_sleep_returns /\ UNCHANGED <<shellVars, runVars, auxVars>>)

RunSpec == RunInit /\ [][RunNext]_vars

---------------------------------------------------------------------------
(* run_with_retries and a shell command of another task, both coroutines   *)
(* of the one thread that asyncio.run gives the event loop                 *)

\* the thread is inside time.sleep(sleep_s): the loop runs no callback and
\* resumes no coroutine until it returns
thread_in_time_sleep == r_pc = "backoff"

\* a step of the task that runs the shell command
ShellTaskStep ==
    \/ \E cs \in SeqsUpTo(RawCommands, MaxRequested - nreq) :
         ShellExecutor_call(cs)
    \/ \E r \in Responses : require_approval(r)
    \/ \E ok \in BOOLEAN : create_subprocess_exec(ok)
    \/ \E b \in ExitBehaviours : communicate_returns(b)
    \/ wait_for_timeout
    \/ \E d \in DrainBehaviours : communicate_after_kill(d)

\* the event loop resumes the shell task
loop_runs_shell_task == ~thread_in_time_sleep /\ ShellTaskStep

ConcInit ==
    /\ tool = "shell_tool"
    /\ envFlag = Some("1")
    /\ ShellIdle
    /\ AuxOff
    /\ r_pc = "attempting"
    /\ retries \in 0..MaxRetries
    /\ backoff_seconds = 1
    /\ attempt = 0
    /\ calls = 0
    /\ delays = <<>>
    /\ raised = <<>>
    /\ r_ret = NotCalled
    /\ RunOff

ConcNext ==
    \/ loop_runs_shell_task
    \/ RetryNext

ConcSpec == ConcInit /\ [][ConcNext]_vars

---------------------------------------------------------------------------
(* The runs that start tool servers: run_code_agent with the agents_sdk    *)
(* backend, and run_model_secret_review                                    *)

McpInit ==
    /\ tool = "code_shell_function"
    /\ envFlag = None
    /\ ShellIdle
    /\ AuxOff
    /\ RetryOff
    /\ entry \in {"run_code_agent", "run_model_secret_review"}
    /\ backend = "agents_sdk"
    /\ output_arg \in BOOLEAN
    /\ run_pc = "start"
    /\ run_status = ""
    /\ error_message = ""
    /\ pending = NotCalled
    /\ mcp_active = {}
    /\ mcp_running = {}
    /\ mcp_stops = [s \in McpServers |-> 0]
    /\ mcp_failed = None
    /\ agent_servers = {}
    /\ disk = {}
    /\ summary = None
    /\ diagnostics = None
    /\ summaryWrites = 0
    /\ run_ret = NotCalled

McpNext ==
    \/ \E o \in {"ok"} \cup SetupErrors("run_code_agent") :
         run_code_agent_setup(o)
    \/ \E installed \in BOOLEAN : \E connected \in SUBSET McpServers :
         \E a \in RunArgs : run_code_agent_mcp(installed, connected, a[1], a[2])
    \/ \E output_ok \in BOOLEAN : run_code_agent_after_agent(output_ok)
    \/ \E o \in {"ok", "azure_config_error", "api_mode_error", "FileNotFoundError"} :
         \E connected \in SUBSET McpServers : \E a \in RunArgs :
           run_model_secret_review_mcp(o, connected, a[1], a[2])
    \/ \E write_ok \in BOOLEAN : run_model_secret_review_after_agent(write_ok)
    \/ run_finally
    \/ run_leave
    \/ (run_pc = "agent" /\ Runner_run_returns /\ UNCHANGED <<shellVars, runVars, auxVars>>)
    \/ \E exc \in TransientErrors \cup OtherErrors :
         run_pc = "agent" /\ Runner_run_raises(exc)
            /\ UNCHANGED <<shellVars, runVars, auxVars>>
    \/ (run_pc = "agent" /\ time_sleep_returns /\ UNCHANGED <<shellVars, runVars, auxVars>>)

McpSpec == McpInit /\ [][McpNext]_vars

---------------------------------------------------------------------------
(* The agent's calls of tool-server operations during a coding run and a   *)
(* review run                                                              *)

MaxToolCalls == 2

\* operations the two server packages offer: those the filters name and a
\* few of the others
ExposedTools(server) ==
    IF server = "filesystem"
      THEN {"read_text_file", "read_file", "read_multiple_files",
            "search_files", "list_directory", "get_file_info", "write_file",
            "edit_file", "create_directory", "move_file", "directory_tree",
            "list_allowed_directories"}
      ELSE {"git_set_working_dir", "git_status", "git_diff", "git_show",
            "git_log", "git_commit", "git_push"}

\* mutant: the review stage is given the coding stage's filter
fs_tool_filter_SameForBoth(e) ==
    {"read_text_file", "read_file", "read_multiple_files", "search_files",
     "list_directory", "get_file_info", "write_file", "edit_file",
     "create_directory", "move_file"}

\* fs_tool_filter of build_local_mcp_servers and of build_review_mcp_servers
fs_tool_filter(e) ==
    IF e = "run_code_agent"
      THEN {"read_text_file", "read_file", "read_multiple_files",
            "search_files", "list_directory", "get_file_info", "write_file",
            "edit_file", "create_directory", "move_file"}
      ELSE {"read_text_file", "read_file", "read_multiple_files",
            "search_files", "list_directory", "get_file_info"}

\* git_tool_filter of both builders
git_tool_filter(e) ==
    {"git_set_working_dir", "git_status", "git_diff", "git_show", "git_log"}

\* MCPServerStdio(name=..., tool_filter=...)
tool_filter(e, server) ==
    IF server = "filesystem" THEN fs_tool_filter(e) ELSE git_tool_filter(e)

\* The model asks for operation op of a server the agent was given.  The
\* static filter keeps op out of the agent's tools unless it is named in
\* allowed_tool_names, and a call of a tool the agent does not have is not
\* forwarded to the server.  The order of the calls is the model's choice:
\* the prompts ask for git_set_working_dir first, no code sequences it.
Agent_calls_tool(server, op) ==
    /\ run_pc = "agent"
    /\ r_pc = "attempting"
    /\ server \in agent_servers
    /\ Len(tool_calls) < MaxToolCalls
    /\ tool_calls' = Append(tool_calls,
                        [server |-> server, op |-> op,
                         forwarded |-> op \in tool_filter(entry, server)])
    /\ UNCHANGED <<truncVars, pathVars, shellVars, retryVars, runVars>>

ToolInit == McpInit

ToolNext ==
    \/ run_code_agent_setup("ok")
    \/ \E connected \in SUBSET McpServers :
         run_code_agent_mcp(TRUE, connected, 0, 1)
    \/ \E connected \in SUBSET McpServers :
         run_model_secret_review_mcp("ok", connected, 0, 1)
    \/ \E server \in McpServers : \E op \in ExposedTools(server) :
         Agent_calls_tool(server, op)
    \/ (run_pc = "agent" /\ Runner_run_returns /\ UNCHANGED <<shellVars, runVars, auxVars>>)
    \/ \E output_ok \in BOOLEAN : run_code_agent_after_agent(output_ok)
    \/ \E write_ok \in BOOLEAN : run_model_secret_review_after_agent(write_ok)
    \/ run_finally
    \/ run_leave

ToolSpec == ToolInit /\ [][ToolNext]_vars

---------------------------------------------------------------------------
(* Two invocations of the program on one machine: the directories and     *)
(* files each of them takes for itself                                     *)

MaxClock == 1

Invocations == {1, 2}

\* args.repo: two local checkouts and a URL to clone
LocalRepos == {"/work/repoA", "/work/repoB"}
RepoArgs == LocalRepos \cup {"https://host/repo.git"}

\* args.command_log_path of run_analysis; run_code_agent has no such option
LogPathArgs == {"", "  ", "/var/log/commands.jsonl"}

\* str.strip() of a path argument
RECURSIVE strip_text(_)
strip_text(s) ==
    IF Len(s) > 0 /\ SubSeq(s, 1, 1) = " "
      THEN strip_text(SubSeq(s, 2, Len(s)))
    ELSE IF Len(s) > 0 /\ SubSeq(s, Len(s), Len(s)) = " "
      THEN strip_text(SubSeq(s, 1, Len(s) - 1))
    ELSE s

\* run_stamp = datetime.utcnow().strftime("%Y%m%d-%H%M%S")
run_stamp(now) == ToString(now)

\* workspace_root / f"run-{run_stamp}", workspace_root / f"code-run-{run_stamp}"
run_dir(e, now) ==
    IF e = "run_analysis" THEN "ws/run-" \o run_stamp(now)
                          ELSE "ws/code-run-" \o run_stamp(now)

\* Path(repo).expanduser().exists()
repo_exists(repo) == repo \in LocalRepos

\* the path acquire_repo returns when it returns one
acquire_repo(repo, dir) ==
    IF repo_exists(repo) THEN repo ELSE dir \o "/repo"

\* git clone refuses a target directory that exists and is not empty
clone_fails(repo, dir) == ~repo_exists(repo) /\ (dir \o "/repo") \in cloned

\* args.command_log_path if given, else run_dir / "commands.jsonl"
command_log_path(e, log_arg, dir) ==
    IF e = "run_analysis" /\ strip_text(log_arg) # "" THEN strip_text(log_arg)
    ELSE dir \o "/commands.jsonl"

\* The start of run_analysis or run_code_agent up to the creation of the
\* logger: stamp, mkdir(exist_ok=True), acquire_repo, command_log_path.
\* clone_ok: whether git clone succeeds into a fresh target.
run_start(i, e, repo, log_arg, clone_ok) ==
    /\ i \notin DOMAIN runs
    /\ i = Len(runs) + 1
    /\ LET dir == run_dir(e, utcnow)
       IN IF ~repo_exists(repo) /\ (clone_fails(repo, dir) \/ ~clone_ok)
            THEN /\ runs' = Append(runs,
                              [pc |-> "raised", entry |-> e, run_dir |-> dir,
                               repo_path |-> "", command_log_path |-> ""])
                 /\ cloned' = cloned
            ELSE /\ runs' = Append(runs,
                              [pc |-> "running", entry |-> e, run_dir |-> dir,
                               repo_path |-> acquire_repo(repo, dir),
                               command_log_path |->
                                   command_log_path(e, log_arg, dir)])
                 /\ cloned' = IF repo_exists(repo) THEN cloned
                              ELSE cloned \cup {dir \o "/repo"}
    /\ UNCHANGED <<utcnow, truncVars, tool_calls, shellVars, retryVars, runVars>>

\* the run function of invocation i returns or raises
run_end(i) ==
    /\ i \in DOMAIN runs
    /\ runs[i].pc = "running"
    /\ runs' = [runs EXCEPT ![i].pc = "ended"]
    /\ UNCHANGED <<utcnow, cloned, truncVars, tool_calls, shellVars, retryVars, runVars>>

\* a second passes
clock_tick ==
    /\ utcnow < MaxClock
    /\ utcnow' = utcnow + 1
    /\ UNCHANGED <<runs, cloned, truncVars, tool_calls, shellVars, retryVars, runVars>>

PathsInit ==
    /\ tool = "shell_tool"
    /\ envFlag = None
    /\ ShellIdle
    /\ RetryOff
    /\ RunOff
    /\ TruncOff
    /\ tool_calls = <<>>
    /\ utcnow = 0
    /\ runs = <<>>
    /\ cloned = {}

PathsNext ==
    \/ \E i \in Invocations : \E e \in {"run_analysis", "run_code_agent"} :
         \E repo \in RepoArgs : \E log_arg \in LogPathArgs :
           \E clone_ok \in BOOLEAN : run_start(i, e, repo, log_arg, clone_ok)
    \/ \E i \in Invocations : run_end(i)
    \/ clock_tick

PathsSpec == PathsInit /\ [][PathsNext]_vars

---------------------------------------------------------------------------
(* _truncate_text on its own, for every text and every max_chars that      *)
(* --command-log-max-output-chars can set                                  *)

MaxTextLen == 4
MaxChars == 3

Alphabet == {"a", "b"}

RECURSIVE Texts(_)
Texts(n) ==
    IF n = 0 THEN {""}
    ELSE LET S == Texts(n - 1) IN S \cup {s \o c : s \in S, c \in Alphabet}

\* ShellCommandLogger.log calls _truncate_text(stdout, self.max_output_chars)
\* and _truncate_text(stderr, self.max_output_chars)
truncate_call ==
    /\ t_stored = None
    /\ t_stored' = Some(truncate_text(t_text, t_max_chars))
    /\ UNCHANGED <<t_text, t_max_chars, tool_calls, pathVars, shellVars, retryVars, runVars>>

TruncInit ==
    /\ tool = "shell_tool"
    /\ envFlag = None
    /\ ShellIdle
    /\ RetryOff
    /\ RunOff
    /\ t_text \in Texts(MaxTextLen)
    /\ t_max_chars \in -1..MaxChars
    /\ t_stored = None
    /\ tool_calls = <<>>
    /\ PathsOff

TruncNext == truncate_call

TruncSpec == TruncInit /\ [][TruncNext]_vars

---------------------------------------------------------------------------
(* Properties of the shell tools *)

\* the events the current (or last) invocation has logged
BatchEvents == SubSeq(events, logAtStart + 1, Len(events))

\* the invocation has ended, by return or by raise
InvocationEnded == pc = "idle" /\ ret.kind # "none"

\* a child process is running or being drained: its event is still to come
InFlight == pc \in {"communicate", "drain"}

MatchingIndices(cl) ==
    { i \in 1..Len(cl) :
        \/ tool = "azure_shell_function" /\ chat_disallowed(cl[i])
        \/ tool = "code_shell_function" /\ code_unsafe(cl[i]) }

(* C1: after any sequence of batches the audit log holds exactly one       *)
(* CommandEvent per command attempted (executed, timed out or blocked), in *)
(* the order of the requests; while a process is in flight its event is    *)
(* the only one outstanding.  Within a batch the events follow the order   *)
(* of command_list.                                                        *)
C1_OneEventPerAttempt ==
    LET done == IF InFlight
                  THEN SubSeq(attempted, 1, Len(attempted) - 1)
                  ELSE attempted
    IN /\ Len(events) = Len(done)
       /\ \A i \in 1..Len(events) :
            /\ events[i].command = done[i].cmd
            /\ events[i].blocked <=> done[i].how = "blocked"
       /\ InFlight => attempted[Len(attempted)].cmd = command_list[idx]
       /\ \A k \in 1..Len(BatchEvents) :
            \/ BatchEvents[k].blocked /\ Len(BatchEvents) = 1
            \/ ~BatchEvents[k].blocked /\ BatchEvents[k].command = command_list[k]

\* two batches: a command that timed out, then a blocked one
C1_Witness ==
    /\ pc = "idle"
    /\ Len(events) = 2
    /\ events[1].timed_out
    /\ events[2].blocked

(* C2 as stated: in the two function tools every command of the batch that *)
(* matches the deny-list is never spawned and yields exactly one blocked   *)
(* event, and the tool returns the 'Blocked unsafe command' string.        *)
C2_EveryMatchLogged ==
    (InvocationEnded /\ tool # "shell_tool" /\ MatchingIndices(command_list) # {})
      => /\ spawns = 0
         /\ ret.kind = "return"
         /\ Len(BatchEvents) = Cardinality(MatchingIndices(command_list))
         /\ \A k \in 1..Len(BatchEvents) : BatchEvents[k].blocked

(* C2 amended: when a batch given to a function tool holds a matching      *)
(* command, no process is spawned for any command of the batch, exactly    *)
(* one event is logged, for the first matching command, with blocked=true, *)
(* a block reason and no exit code, and the tool returns 'Blocked unsafe   *)
(* command: <that command>' instead of raising.                            *)
C2_FirstMatchBlocked ==
    (tool # "shell_tool" /\ MatchingIndices(command_list) # {})
      => LET m == CHOOSE i \in MatchingIndices(command_list) :
                    \A j \in MatchingIndices(command_list) : i <= j
         IN /\ pc = "idle"
            /\ spawns = 0
            /\ approvalCalls = 0
            /\ Len(BatchEvents) = 1
            /\ BatchEvents[1].command = command_list[m]
            /\ BatchEvents[1].blocked
            /\ BatchEvents[1].block_reason # ""
            /\ BatchEvents[1].exit_code = None
            /\ ~BatchEvents[1].timed_out
            /\ ret.kind = "return"
            /\ Len(ret.value) = 1
            /\ ret.value[1].t = "Blocked unsafe command: "
            /\ ret.value[1].cmd = command_list[m]

\* a batch whose second command matches, after a first that does not
C2_Witness ==
    /\ tool = "code_shell_function"
    /\ Len(command_list) = 2
    /\ MatchingIndices(command_list) = {2}
    /\ Len(BatchEvents) = 1
    /\ BatchEvents[1].blocked

(* C3: a process still running when its timeout expires is killed and its  *)
(* output drained; the event logged for it has timed_out=true and no exit  *)
(* code, and so has the ShellExecutor result; 124 is only in the string    *)
(* the function tools return.                                              *)
C3_TimeoutKillsAndLogsNone ==
    /\ pc = "drain" => proc.killed /\ proc.state = "killed"
    /\ \A i \in 1..Len(events) :
         events[i].timed_out =>
            /\ events[i].exit_code = None
            /\ events[i].exit_code # Some(124)
            /\ ~events[i].blocked
    /\ (pc = "idle" /\ proc.state = "killed") =>
         /\ proc.killed /\ proc.drained
         /\ Len(BatchEvents) >= 1
         /\ LET e == BatchEvents[Len(BatchEvents)]
                last == ret.value[Len(ret.value)]
            IN /\ e.timed_out
               /\ e.command = proc.cmd
               /\ e.exit_code = None
               /\ ret.kind = "return"
               /\ IF tool = "shell_tool"
                    THEN last.t = "timeout" /\ last.n = None
                    ELSE last.t = "[exit_code=" /\ last.n = Some(124)

\* a timed-out command whose pipes still held output, in a function tool
C3_Witness ==
    /\ pc = "idle"
    /\ tool = "azure_shell_function"
    /\ proc.state = "killed"
    /\ Len(events) >= 1
    /\ events[Len(events)].timed_out
    /\ events[Len(events)].stdout = "par"

Rejected == "Shell command execution rejected by user."

\* the user was not asked, or did not answer y / yes
NoConsent == \A i \in 1..Len(answers) : answers[i] \notin {"y", "yes"}

Spawning == spawns > 0 \/ pc \in {"spawn", "communicate", "drain"}

C8_AutoApproveFlag ==
    /\ envFlag = Some("1") =>
         /\ displayed = <<>>
         /\ answers = <<>>
         /\ ret # Raised(Rejected)
    /\ envFlag # Some("1") =>
         (Spawning => /\ Len(answers) = 1
                      /\ answers[1] \in {"y", "yes"}
                      /\ displayed = command_list)

\* a batch of two run to the end under the flag, nobody asked
C8_Witness ==
    /\ envFlag = Some("1")
    /\ InvocationEnded
    /\ spawns = 2
    /\ approvalCalls = 1
    /\ answers = <<>>

(* C9: an invocation that spawns a process has consulted the approval gate *)
(* exactly once, for the whole batch, before the first spawn; the gate is  *)
(* never consulted a second time in the invocation.                        *)
C9_ApprovalOncePerBatch ==
    /\ approvalCalls <= 1
    /\ Spawning => approvalCalls = 1
    /\ (approvalCalls = 1 /\ envFlag # Some("1")) => displayed = command_list

\* two commands executed on one question
C9_Witness ==
    /\ InvocationEnded
    /\ spawns = 2
    /\ envFlag = None
    /\ approvalCalls = 1
    /\ Len(answers) = 1

---------------------------------------------------------------------------
(* Properties of run_with_retries *)

RECURSIVE Pow2(_)
Pow2(n) == IF n <= 0 THEN 1 ELSE 2 * Pow2(n - 1)

AllTransient == \A k \in 1..Len(raised) : raised[k] \in TransientErrors

Finished == r_pc \in {"done", "failed"}

(* C4: the k-th backoff delay is backoff_seconds * 2^(k-1); when every     *)
(* attempt fails with a transient error, backoff 2 and 3 retries give the  *)
(* delays 2, 4, 8, and the failure that exhausts the retries is raised     *)
(* with no delay after it.                                                 *)
C4_BackoffDoubles ==
    /\ \A k \in 1..Len(delays) : delays[k] = backoff_seconds * Pow2(k - 1)
    /\ (r_pc = "failed" /\ AllTransient /\ retries >= 0) =>
         /\ Len(delays) = retries
         /\ calls = retries + 1
         /\ r_ret.kind = "raise"
         /\ r_ret.error = raised[Len(raised)]
    /\ (r_pc = "failed" /\ AllTransient /\ backoff_seconds = 2 /\ retries = 3) =>
         /\ delays = <<2, 4, 8>>
         /\ calls = 4

\* the spec's example: four transient failures in a row
C4_Witness ==
    /\ r_pc = "failed"
    /\ backoff_seconds = 2
    /\ retries = 3
    /\ Len(raised) = 4
    /\ AllTransient
    /\ delays = <<2, 4, 8>>

(* C5: a failure that is neither a rate-limit nor a connection error is    *)
(* the last thing the driver sees: it is raised as it is, no delay follows *)
(* it and Runner.run is not called again, whatever retries remain.         *)
C5_NonTransientPropagates ==
    \A k \in 1..Len(raised) :
        raised[k] \notin TransientErrors =>
            /\ k = Len(raised)
            /\ calls = k
            /\ Len(delays) = k - 1
            /\ r_pc = "failed"
            /\ r_ret = Raised(raised[k])

\* a non-transient failure on the second attempt, with retries left
C5_Witness ==
    /\ r_pc = "failed"
    /\ retries = 3
    /\ Len(raised) = 2
    /\ raised[1] = "RateLimitError"
    /\ raised[2] = "MaxTurnsExceeded"

\* Attempting -> Backoff | Done | Failed, Backoff -> Attempting
RetryTransition ==
    \/ r_pc = "attempting" /\ r_pc' \in {"backoff", "done", "failed"}
    \/ r_pc = "backoff" /\ r_pc' = "attempting"

C6_CallBounds(limit) ==
    /\ calls <= limit
    /\ Finished => calls >= 1
    /\ r_pc = "done" => r_ret.kind = "return" /\ Len(raised) = calls - 1
    /\ r_pc = "failed" => r_ret.kind = "raise" /\ Len(raised) = calls

(* C6 as stated: for every retries value, negative ones included,          *)
(* Runner.run is invoked at least once and at most retries+1 times.        *)
C6_AtMostRetriesPlusOne == C6_CallBounds(retries + 1)

(* C6 amended: the driver follows Attempting -> Backoff -> Attempting /    *)
(* Done / Failed; Runner.run is invoked at least once and at most          *)
(* max(retries, 0) + 1 times; and if every attempt and every sleep ends,   *)
(* the driver reaches Done (returning the first successful result) or      *)
(* Failed (raising).                                                       *)
C6_BoundedAndTerminates ==
    /\ [][RetryTransition]_vars
    /\ [](C6_CallBounds((IF retries < 0 THEN 0 ELSE retries) + 1))
    /\ <>Finished

\* a negative retries value: one call, then the failure is raised
C6_Witness ==
    /\ retries = -1
    /\ r_pc = "failed"
    /\ calls = 1
    /\ raised = <<"RateLimitError">>

---------------------------------------------------------------------------
(* Properties of the run functions (under RunSpec) *)

AgentPhaseEnded == run_pc \notin {"off", "start", "codex", "mcp"} /\ Finished

ReachedCaller == run_ret.kind # "none"

SummaryStatus == IF summary = None THEN "" ELSE summary[1].run_status

(* C10: after a run whose agent phase ended in success, in a non-retryable *)
(* error or in exhausted retries, run-summary.json exists and was written  *)
(* exactly once, before the result or the error reached the caller; its    *)
(* run_status is completed or completed_with_warnings when the agent call  *)
(* succeeded and the run returned, and failed when the agent call failed.  *)
C10_SummaryWrittenOnce ==
    /\ summaryWrites <= 1
    /\ (summaryWrites = 1) = ("run-summary.json" \in disk)
    /\ (AgentPhaseEnded /\ ReachedCaller) =>
         /\ summaryWrites = 1
         /\ summary # None
         /\ r_pc = "failed" =>
              /\ run_ret = Raised(raised[Len(raised)])
              /\ SummaryStatus = "failed"
              /\ summary[1].error_message = raised[Len(raised)]
         /\ (r_pc = "done" /\ run_ret.kind = "return") =>
              /\ SummaryStatus \in (IF entry = "run_analysis"
                                      THEN {"completed", "completed_with_warnings"}
                                      ELSE {"completed"})
              /\ summary[1].error_message = ""

\* a run interrupted by exhausted retries has re-raised to its caller
C10_Witness ==
    /\ AgentPhaseEnded
    /\ run_ret.kind = "raise"
    /\ r_pc = "failed"
    /\ retries >= 1
    /\ calls = retries + 1
    /\ AllTransient
    /\ summaryWrites = 1
    /\ SummaryStatus = "failed"

(* C11: a run summary is written for every run that has started, whatever *)
(* step raises: once the run function has returned or raised,             *)
(* run-summary.json is on disk and was written once.                      *)
C11_SummaryForEveryStartedRun ==
    ReachedCaller => (summaryWrites = 1 /\ "run-summary.json" \in disk)

(* C12: after every run that reached its agent phase, successful or not,  *)
(* the audit log file, command-diagnostics.json and run-summary.json all  *)
(* exist, also when no command was attempted during the run.              *)
C12_ThreeArtifacts ==
    (AgentPhaseEnded /\ ReachedCaller) =>
        /\ log_path_exists
        /\ "command-diagnostics.json" \in disk
        /\ "run-summary.json" \in disk

---------------------------------------------------------------------------
(* Properties of the tool servers (under McpSpec) *)

ServersStarted == IF mcp_failed = None THEN {} ELSE McpServers \ mcp_failed[1]

NoServersError ==
    IF entry = "run_code_agent"
      THEN "No MCP servers connected successfully."
      ELSE "No MCP servers connected successfully for review stage."

\* what the statements after the manager produced, on its way to the caller
AfterManager == IF entry = "run_code_agent" THEN pending ELSE run_ret

(* C13: when some but not all tool servers fail to launch, the run does    *)
(* not raise, the active set is exactly the set of servers that started,   *)
(* and the agent is built with only those; when every server fails, the    *)
(* run raises the 'no servers connected' error and the agent runtime is    *)
(* never invoked.                                                          *)
C13_PartialStartTolerated ==
    /\ (mcp_failed # None /\ ServersStarted # {} /\ run_pc = "agent") =>
         /\ mcp_running = ServersStarted
         /\ mcp_active = ServersStarted
         /\ agent_servers = ServersStarted
         /\ calls > 0 \/ (pending.kind = "none" /\ run_ret.kind = "none")
    /\ (mcp_failed # None /\ ServersStarted # {}) => r_pc # "off"
    /\ (mcp_failed # None /\ ServersStarted = {}) =>
         /\ AfterManager = Raised(NoServersError)
         /\ calls = 0
         /\ r_pc = "off"
         /\ agent_servers = {}
    /\ calls > 0 => (agent_servers # {} /\ agent_servers = ServersStarted)

\* one of two servers failed; the agent runs with the other
C13_Witness ==
    /\ run_pc = "agent"
    /\ mcp_failed = Some({"git"})
    /\ agent_servers = {"filesystem"}
    /\ calls = 1
    /\ r_pc = "done"

(* C14: every tool server that was started is stopped on every exit path   *)
(* of the agent phase, each at most once, and none is running when the run *)
(* function returns or raises.                                             *)
C14_ServersStopped ==
    /\ \A s \in McpServers : mcp_stops[s] <= 1
    /\ \A s \in McpServers : mcp_stops[s] = 1 => s \in ServersStarted
    /\ mcp_running \subseteq ServersStarted
    /\ \A s \in ServersStarted : (s \in mcp_running) = (mcp_stops[s] = 0)
    /\ run_pc \in {"finally", "exit", "returned", "raised"} => mcp_running = {}
    /\ ReachedCaller =>
         /\ mcp_running = {}
         /\ \A s \in ServersStarted : mcp_stops[s] = 1

\* both servers ran, the retries were exhausted, the error reached the caller
C14_Witness ==
    /\ ReachedCaller
    /\ run_ret.kind = "raise"
    /\ r_pc = "failed"
    /\ AllTransient
    /\ ServersStarted = McpServers
    /\ \A s \in McpServers : mcp_stops[s] = 1
    /\ mcp_running = {}

---------------------------------------------------------------------------
(* Further properties of the shell tools (under Spec) *)

TimedOutInBatch == \E k \in 1..Len(BatchEvents) : BatchEvents[k].timed_out

\* the agent asks the same tool to run one more command
NextInvocation ==
    IF tool = "shell_tool"
      THEN ShellExecutor_call(<<Cmd(FALSE, <<"ls">>)>>)
      ELSE FunctionTool_shell(Some(Cmd(FALSE, <<"ls">>)), None)

(* C15: a command timeout cancels only the process it governs: the tool    *)
(* invocation that holds the timed-out command logs it and returns, never  *)
(* raises because of it, and once it has ended a further invocation of the *)
(* tool can start, spawn and log.                                          *)
C15_TimeoutIsLocal ==
    /\ (pc = "idle" /\ TimedOutInBatch) =>
          /\ ret.kind = "return"
          /\ BatchEvents[Len(BatchEvents)].timed_out
          /\ BatchEvents[Len(BatchEvents)].command = proc.cmd
          /\ proc.killed
          /\ nreq < MaxRequested => ENABLED NextInvocation
    /\ TimedOutInBatch => pc = "idle"
    /\ \A k \in 1..Len(BatchEvents) :
          BatchEvents[k].timed_out => k = Len(BatchEvents)

\* a command of an earlier invocation timed out; a later invocation has
\* spawned a process, which exited, and logged it
C15_Witness ==
    /\ Len(events) = 2
    /\ events[1].timed_out
    /\ logAtStart = 1
    /\ spawns = 1
    /\ ~events[2].timed_out
    /\ ~events[2].blocked
    /\ events[2].exit_code = Some(0)
    /\ ret.kind = "return"

\* the exit codes a returned value reports, in order
RECURSIVE ReportedCodes(_)
ReportedCodes(v) ==
    IF v = <<>> THEN <<>>
    ELSE (IF Head(v).t \in {"exit", "[exit_code="} THEN <<Head(v).n>> ELSE <<>>)
           \o ReportedCodes(Tail(v))

\* the event and the state that follow a command's exit
ExitStep ==
    (pc = "communicate" /\ pc' # "communicate" /\ pc' # "drain") =>
        /\ Len(events') = Len(events) + 1
        /\ LET e == events'[Len(events')]
           IN /\ e.command = command_list[idx]
              /\ ~e.timed_out /\ ~e.blocked
              /\ e.exit_code # None
        /\ IF idx < Len(command_list)
             THEN pc' = "spawn" /\ idx' = idx + 1 /\ ret' = ret
             ELSE pc' = "idle" /\ ret'.kind = "return"

(* C16: a command that exits with a nonzero status never raises out of the *)
(* tool: its exit code is logged and returned as data, and the remaining   *)
(* commands of the batch are still spawned and logged after it.            *)
C16_NonZeroExitIsData ==
    /\ [][ExitStep]_vars
    /\ [](\A k \in 1..Len(BatchEvents) :
            (~BatchEvents[k].timed_out /\ ~BatchEvents[k].blocked) =>
               /\ BatchEvents[k].exit_code \in {Some(b.code) : b \in ExitBehaviours}
               /\ BatchEvents[k].command = command_list[k])
    /\ []((InvocationEnded /\ ret.kind = "return" /\ BatchEvents # <<>>
            /\ ~TimedOutInBatch /\ ~BatchEvents[1].blocked) =>
               /\ Len(BatchEvents) = Len(command_list)
               /\ ReportedCodes(ret.value)
                    = [k \in 1..Len(BatchEvents) |-> BatchEvents[k].exit_code])

\* the first command of a batch exited with status 1, the second ran too
C16_Witness ==
    /\ InvocationEnded
    /\ tool = "code_shell_function"
    /\ Len(command_list) = 2
    /\ Len(BatchEvents) = 2
    /\ BatchEvents[1].exit_code = Some(1)
    /\ BatchEvents[2].exit_code = Some(0)
    /\ spawns = 2
    /\ ReportedCodes(ret.value) = <<Some(1), Some(0)>>

\* the loop was entered and a create_subprocess_exec call raised
SpawnFailed == pc = "idle" /\ idx >= 1 /\ proc = NoProc

(* C17: when the process for a command cannot be spawned, the tool absorbs *)
(* the failure: it records exactly one CommandEvent for that command, with *)
(* a non-zero synthetic status, and does not raise.                        *)
C17_SpawnFailureAbsorbed ==
    SpawnFailed =>
        /\ ret.kind = "return"
        /\ Len(BatchEvents) = idx
        /\ BatchEvents[idx].command = command_list[idx]
        /\ BatchEvents[idx].exit_code \notin {None, Some(0)}

---------------------------------------------------------------------------
(* Properties of the event loop (under ConcSpec) *)

(* C18: while run_with_retries waits out a backoff delay, only that call   *)
(* is blocked: a task of the same event loop whose process has output to   *)
(* drain, or whose timeout has expired, can take its step during the       *)
(* delay.                                                                  *)
C18_OthersRunDuringBackoff ==
    (r_pc = "backoff" /\ InFlight) => ENABLED loop_runs_shell_task

---------------------------------------------------------------------------
(* Properties of ShellCommandLogger (under Spec) *)

\* json.loads of a line: the object with the line's members
json_loads(line) ==
    [key \in {line[i][1] : i \in 1..Len(line)} |->
        line[CHOOSE i \in 1..Len(line) : line[i][1] = key][2]]

FileEvents == [k \in 1..Len(logfile) |-> json_loads(logfile[k])]

\* a step either leaves both the list and the file alone or appends one
\* event to the list and its line to the file
AppendOnly ==
    \/ events' = events /\ logfile' = logfile
    \/ /\ Len(events') = Len(events) + 1
       /\ Len(logfile') = Len(logfile) + 1
       /\ SubSeq(events', 1, Len(events)) = events
       /\ SubSeq(logfile', 1, Len(logfile)) = logfile
       /\ json_loads(logfile'[Len(logfile')]) = events'[Len(events')]

(* C19: on a logger whose log path was fresh, after any sequence of log    *)
(* calls the in-memory event sequence and the lines of the JSONL file hold *)
(* the same events in the same order; each log call appends exactly one    *)
(* event to both and never changes, reorders or removes an earlier one.    *)
C19_MemoryMatchesFile ==
    /\ [](Len(logfile) = Len(events))
    /\ [](\A k \in 1..Len(events) : FileEvents[k] = events[k])
    /\ [][AppendOnly]_vars

\* two different events were logged, one of them for a blocked command
C19_Witness ==
    /\ Len(events) = 2
    /\ Len(logfile) = 2
    /\ events[1].blocked
    /\ ~events[2].blocked
    /\ events[2].stdout = "out"
    /\ FileEvents[2].stdout = "out"
    /\ FileEvents[1].block_reason = "unsafe_command_pattern"

---------------------------------------------------------------------------
(* Properties of the command diagnostics (under RunSpec) *)

CountEvents(Test(_)) == Cardinality({k \in 1..Len(events) : Test(events[k])})

IsBlocked(e) == e.blocked

IsTimedOut(e) == e.timed_out

IsFailed(e) ==
    /\ ~e.blocked
    /\ ~e.timed_out
    /\ e.exit_code \in {Some(n) : n \in (-255..255) \ {0}}

---------------------------------------------------------------------------
(* Properties of _truncate_text *)

\* the marker that reports n dropped characters
Marker(n) == "\n... [truncated " \o ToString(n) \o " chars]"

\* s ends with suffix
EndsWith(s, suffix) ==
    /\ Len(suffix) <= Len(s)
    /\ SubSeq(s, Len(s) - Len(suffix) + 1, Len(s)) = suffix

\* characters of the text that the stored text does not keep
CharsDropped ==
    /\ t_stored # None
    /\ Len(t_text) > 0
    /\ Len(t_text) > t_max_chars

(* C21: a text no longer than the budget is stored unchanged; a longer     *)
(* text is stored as its first budget characters followed by a marker      *)
(* whose count is len(text) - budget; and whenever characters are dropped, *)
(* with a budget of 0 or below included, the stored text ends with a       *)
(* marker that reports a positive count.                                   *)
C21_TruncationMarked ==
    t_stored # None =>
        LET s == t_stored[1]
        IN /\ (Len(t_text) <= t_max_chars => s = t_text)
           /\ (Len(t_text) > t_max_chars /\ t_max_chars >= 0
                 => s = SubSeq(t_text, 1, t_max_chars)
                          \o Marker(Len(t_text) - t_max_chars))
           /\ (CharsDropped
                 => \E n \in 1..(Len(t_text) + 1) : EndsWith(s, Marker(n)))

(* C28: the stored stdout or stderr is never longer than max_output_chars, *)
(* for every output and every cap (a cap below 0 allows nothing).          *)
C28_StoredWithinCap ==
    t_stored # None =>
        Len(t_stored[1]) <= (IF t_max_chars >= 0 THEN t_max_chars ELSE 0)

---------------------------------------------------------------------------
(* Properties of the tool-server boundary *)

\* the calls of operations of one server, in order
CallsOf(server) == SelectSeq(tool_calls, LAMBDA c : c.server = server)

\* the filesystem operations that change the repository
FsWriteOps == {"write_file", "edit_file", "create_directory", "move_file"}

\* the git operations the claim allows
GitReadOps ==
    {"git_set_working_dir", "git_status", "git_diff", "git_show", "git_log"}

(* C22: a call is forwarded to its server exactly when the operation is on *)
(* the server's allow-list, and is rejected otherwise: the git server      *)
(* takes git_set_working_dir, git_status, git_diff, git_show and git_log   *)
(* in both stages; the review stage's filesystem server takes no writing   *)
(* operation; the coding stage's filesystem server takes what the review   *)
(* stage's takes and write_file, edit_file, create_directory, move_file.   *)
C22_AllowListsEnforced ==
    \A i \in DOMAIN tool_calls :
        LET c == tool_calls[i]
        IN /\ c.server = "git" => (c.forwarded <=> c.op \in GitReadOps)
           /\ (c.server = "filesystem" /\ entry = "run_model_secret_review"
                 => /\ c.forwarded => c.op \notin FsWriteOps
                    /\ c.forwarded <=> c.op \in fs_tool_filter(entry))
           /\ (c.server = "filesystem" /\ entry = "run_code_agent"
                 => (c.forwarded <=>
                       \/ c.op \in fs_tool_filter("run_model_secret_review")
                       \/ c.op \in FsWriteOps))

\* a coding run whose agent had write_file forwarded and git_commit rejected
C22_Witness ==
    /\ entry = "run_code_agent"
    /\ \E i \in DOMAIN tool_calls :
         /\ tool_calls[i].op = "write_file"
         /\ tool_calls[i].forwarded
    /\ \E i \in DOMAIN tool_calls :
         /\ tool_calls[i].op = "git_commit"
         /\ ~tool_calls[i].forwarded

(* C23: every git operation other than git_set_working_dir that reaches   *)
(* the git server comes after a git_set_working_dir call that reached it.  *)
C23_HandshakeFirst ==
    \A i \in DOMAIN tool_calls :
        LET c == tool_calls[i]
        IN (c.server = "git" /\ c.forwarded /\ c.op # "git_set_working_dir")
             => \E j \in 1..(i - 1) :
                   /\ tool_calls[j].server = "git"
                   /\ tool_calls[j].op = "git_set_working_dir"
                   /\ tool_calls[j].forwarded

---------------------------------------------------------------------------
(* Properties of the paths of concurrent runs *)

\* invocations whose run function is between its start and its end
Running == {i \in DOMAIN runs : runs[i].pc = "running"}

(* C24: two runs that are under way at the same time use different        *)
(* repository working directories and different audit log paths, also     *)
(* when both were given the same local repository path or started within  *)
(* the same second.                                                        *)
C24_RunsIsolated ==
    \A i \in Running : \A j \in Running :
        i # j => /\ runs[i].repo_path # runs[j].repo_path
                 /\ runs[i].command_log_path # runs[j].command_log_path

---------------------------------------------------------------------------
(* Properties of the shell tools, continued *)

\* the commands for which a process was spawned, over all invocations
SpawnedCommands ==
    { attempted[i].cmd : i \in { k \in DOMAIN attempted :
                                   attempted[k].how = "spawned" } }

(* C25: on every path a command has passed the unsafe-command filter       *)
(* before a process is spawned for it: the chat function tool spawns no    *)
(* command its pattern matches, the code function tool none that its       *)
(* pattern matches, and ShellExecutor none that both patterns match.       *)
C25_FilterBeforeSpawn ==
    \A c \in SpawnedCommands :
        /\ tool = "azure_shell_function" => ~chat_disallowed(c)
        /\ tool = "code_shell_function" => ~code_unsafe(c)
        /\ tool = "shell_tool" => ~(chat_disallowed(c) /\ code_unsafe(c))

\* what the current invocation has blocked or spawned so far
BatchAttempted ==
    SubSeq(attempted, Len(attempted) - (Len(BatchEvents) + (IF InFlight THEN 1 ELSE 0)) + 1,
           Len(attempted))

(* C26: when the k-th command of a batch times out the loop stops: the     *)
(* invocation has returned, the batch's events are exactly those of the    *)
(* commands 1..k of command_list, in order, with the timed-out one last,   *)
(* and exactly k processes were spawned, so that no later command of the   *)
(* batch is spawned or logged.                                             *)
C26_TimeoutStopsBatch ==
    \A k \in 1..Len(BatchEvents) :
        BatchEvents[k].timed_out =>
            /\ InvocationEnded
            /\ ret.kind = "return"
            /\ Len(BatchEvents) = k
            /\ \A i \in 1..k : BatchEvents[i].command = command_list[i]
            /\ \A i \in 1..(k - 1) : ~BatchEvents[i].timed_out
            /\ spawns = k
            /\ Len(BatchAttempted) = k
            /\ \A i \in 1..k : BatchAttempted[i].cmd = command_list[i]

\* the first of two commands timed out; the second was never spawned
C26_Witness ==
    /\ InvocationEnded
    /\ Len(command_list) = 2
    /\ Len(BatchEvents) = 1
    /\ BatchEvents[1].timed_out
    /\ spawns = 1

(* C27: the exit code of a logged event is absent exactly when the event   *)
(* is timed out or blocked; no event is both blocked and timed out; and a  *)
(* blocked event has duration 0 and empty stdout and stderr.               *)
C27_ExitCodeAbsence ==
    \A i \in 1..Len(events) :
        LET e == events[i]
        IN /\ (e.exit_code = None) <=> (e.timed_out \/ e.blocked)
           /\ ~(e.blocked /\ e.timed_out)
           /\ e.blocked => /\ e.duration_ms = 0
                           /\ e.stdout = ""
                           /\ e.stderr = ""

\* a blocked event, then one of a command that timed out with output drained
C27_Witness ==
    /\ Len(events) = 2
    /\ events[1].blocked
    /\ events[1].exit_code = None
    /\ events[2].timed_out
    /\ events[2].exit_code = None
    /\ events[2].stdout # ""

---------------------------------------------------------------------------
(* Properties of the run functions, continued (under RunSpec) *)

(* C29: when the run function has left by raising, the run summary it      *)
(* wrote records run_status 'failed' and the error; 'completed' and        *)
(* 'completed_with_warnings' are recorded only by a run that returned,     *)
(* also when the exception came after the agent call had succeeded, from   *)
(* the report or output write.                                            *)
C29_RaisingRunIsFailed ==
    (ReachedCaller /\ summary # None) =>
        /\ run_ret.kind = "raise" =>
             /\ SummaryStatus = "failed"
             /\ summary[1].error_message # ""
        /\ SummaryStatus \in {"completed", "completed_with_warnings"} =>
             run_ret.kind = "return"

---------------------------------------------------------------------------
(* Properties of the function tools' entry (under Spec) *)

\* the first command of the batch that the tool's deny-list matches
FirstMatching ==
    CHOOSE i \in MatchingIndices(command_list) :
        \A j \in MatchingIndices(command_list) : i <= j

(* C30: a function tool checks the whole batch against its deny-list       *)
(* before anything else: if any command matches, no process is spawned for *)
(* any command of the batch, those before the match included, approval is  *)
(* not requested and nothing is displayed, and the batch's only event is   *)
(* the blocked event of the first match.  A batch with no non-empty        *)
(* command returns 'No command provided.' with no approval request, no     *)
(* spawn and no event.                                                     *)
C30_BatchCheckedFirst ==
    tool # "shell_tool" =>
        /\ MatchingIndices(command_list) # {} =>
             /\ spawns = 0
             /\ approvalCalls = 0
             /\ answers = <<>>
             /\ displayed = <<>>
             /\ BatchEvents = <<BlockedEvent(tool, command_list[FirstMatching])>>
             /\ BatchAttempted
                  = <<[cmd |-> command_list[FirstMatching], how |-> "blocked"]>>
        /\ (InvocationEnded /\ command_list = <<>>) =>
             /\ ret = Returned(<<Part("No command provided.", NoCmd, "", "", None)>>)
             /\ approvalCalls = 0
             /\ answers = <<>>
             /\ spawns = 0
             /\ BatchEvents = <<>>

\* the chat tool given "ls" and then "rm file": "ls" was not run either
C30_Witness ==
    /\ tool = "azure_shell_function"
    /\ InvocationEnded
    /\ command_list = <<Cmd(FALSE, <<"ls">>), Cmd(FALSE, <<"rm", "file">>)>>
    /\ spawns = 0
    /\ approvalCalls = 0
    /\ Len(BatchEvents) = 1
    /\ BatchEvents[1].command = Cmd(FALSE, <<"rm", "file">>)

====
